---- MODULE Spec2Model ----
(***************************************************************************)
(* Model of the incremental listing-synchronization pipeline of            *)
(* src/src/bazaraki_lambda_scraper.js: handler -> scrapeListings           *)
(* (loadPreviousResults, extractListingUrls, extractListingDetails) ->     *)
(* saveAndCompareResults -> sendTelegramNotification.                      *)
(*                                                                         *)
(* Strings are sequences of tokens: a URL is a sequence over               *)
(* {"/", "adv", "_", "s", "id=", digits}, an ad id is a sequence of        *)
(* digits, and the empty sequence stands for JavaScript's null.            *)
(* A listing keeps the fields the pipeline decides on (id, url,            *)
(* propertyType, error marker); free-text fields and timestamps are left   *)
(* out.  DEBUG_MODE is off (live scraping).                                *)
(*                                                                         *)
(* Spec is the whole invocation with the dispatcher as one step; DiffSpec  *)
(* and DispatchSpec start at the call of saveAndCompareResults with large  *)
(* listing sets, DispatchSpec following sendTelegramNotification request   *)
(* by request; SplitSpec applies splitLongMessage to short texts.          *)
(***************************************************************************)
EXTENDS Integers, Sequences, FiniteSets, TLC

VARIABLES
  store,               \* the state.json object of the filter key: [exists, listings]
  envForce,            \* process.env.FORCE_NOTIFICATION === 'true', once the diff has read it
  pc,                  \* position of the handler invocation
  eventForce,          \* event.force === true, once the handler has read it
  previousListings,    \* scrapeListings: previousResults.listings
  typeIdx,             \* scrapeListings: index of the property type in work
  page,                \* extractListingUrls: loop variable page
  urlResults,          \* extractListingUrls: result (with urlSet) / value returned
  detailQueue,         \* scrapeListings: newListingUrls still to extract
  newListings,         \* scrapeListings: newListings
  allCurrentListings,  \* scrapeListings: allCurrentListings
  allProcessedIds,     \* scrapeListings: allProcessedIds
  results,             \* handler: value returned by saveAndCompareResults
  diffIO,              \* the diff's getObject and putObject outcomes and its logged warning
  notifyCalls,         \* calls of sendTelegramNotification in this invocation
  response,            \* value returned by the handler
  hist,                \* history of the invocation: fetches and their failures, writes, store at its start
  message,             \* splitLongMessage: parameter message
  maxLength,           \* splitLongMessage: parameter maxLength
  chunks,              \* splitLongMessage: value returned, null before the call
  telegramEnv,         \* SKIP_TELEGRAM === 'true', and whether bot token and chat id are set
  tg,                  \* sendTelegramNotification: position, loop variable i, value returned
  attempts,            \* requests posted to the messaging endpoint in this call, per kind of message
  sends,               \* the last two requests posted, and how many were answered with a failure
  scrapeTypes,         \* scrapeListings: propertyTypes, from the event's propertyType
  bucket,              \* the objects of the S3 bucket, by key, when several filter keys are in use
  runs                 \* the invocations in flight at the same time, each with its locals

vars == <<store, envForce, pc, eventForce, previousListings, typeIdx, page,
          urlResults, detailQueue, newListings, allCurrentListings, allProcessedIds,
          results, diffIO, notifyCalls, response, hist,
          message, maxLength, chunks, telegramEnv, tg, attempts, sends,
          scrapeTypes, bucket, runs>>

messagingVars == <<message, maxLength, chunks, telegramEnv, tg, attempts, sends>>

concurrentVars == <<bucket, runs>>

(***************************************************************************)
(* Bounds of the model                                                     *)
(***************************************************************************)
\* extractListingUrls is called with maxPages = 10; the model crawls fewer pages
MaxPages == 2
\* number of links one result page carries at most
MaxLinksOnPage == 2
\* number of links one invocation crawls at most, over all pages and types
MaxListings == 2

(***************************************************************************)
(* Strings                                                                 *)
(***************************************************************************)
Digits == {"0", "1", "2", "3", "4", "5", "6", "7", "8", "9"}

null == <<>>

BASE_URL == <<"base">>

\* hrefs the site serves in its result pages
Hrefs ==
  { <<"/", "adv", "/", "1", "_", "s", "/">>,
    <<"/", "adv", "/", "1", "/">>,
    <<"/", "adv", "/", "0", "1", "_", "s", "/">>,
    <<"/", "adv", "/", "2", "_", "s", "/">> }

RECURSIVE DigitRun(_, _)
\* the longest run of digits of s that starts at position i: what (\d+) captures
DigitRun(s, i) ==
  IF i <= Len(s) /\ s[i] \in Digits
    THEN <<s[i]>> \o DigitRun(s, i + 1)
    ELSE <<>>

Min(S) == CHOOSE x \in S : \A y \in S : x <= y

Max(S) == CHOOSE x \in S : \A y \in S : x >= y

\* url.match(/\/adv\/(\d+)_/): the capture of the leftmost match, or null
MatchAdvSlug(url) ==
  LET at(i) == /\ i + 3 <= Len(url)
               /\ url[i] = "/" /\ url[i + 1] = "adv" /\ url[i + 2] = "/"
               /\ DigitRun(url, i + 3) # <<>>
               /\ i + 3 + Len(DigitRun(url, i + 3)) <= Len(url)
               /\ url[i + 3 + Len(DigitRun(url, i + 3))] = "_"
      I == {i \in 1..Len(url) : at(i)}
  IN IF I = {} THEN null ELSE DigitRun(url, Min(I) + 3)

\* url.match(/\/(\d+)\/?$/): the capture of the leftmost match, or null
MatchTrailingNumber(url) ==
  LET at(i) == /\ url[i] = "/"
               /\ DigitRun(url, i + 1) # <<>>
               /\ LET e == i + Len(DigitRun(url, i + 1))
                  IN \/ e = Len(url)
                     \/ e + 1 = Len(url) /\ url[e + 1] = "/"
      I == {i \in 1..Len(url) : at(i)}
  IN IF I = {} THEN null ELSE DigitRun(url, Min(I) + 1)

\* url.match(/id=(\d+)/): the capture of the leftmost match, or null
MatchIdParam(url) ==
  LET at(i) == url[i] = "id=" /\ DigitRun(url, i + 1) # <<>>
      I == {i \in 1..Len(url) : at(i)}
  IN IF I = {} THEN null ELSE DigitRun(url, Min(I) + 1)

\* the extractAdId in effect: the last of the three declarations of the file
extractAdId(url) ==
  IF url = <<>> THEN null
  ELSE IF MatchAdvSlug(url) # null THEN MatchAdvSlug(url)
  ELSE IF MatchTrailingNumber(url) # null THEN MatchTrailingNumber(url)
  ELSE MatchIdParam(url)

RECURSIVE StripZeros(_)
\* String(parseInt(s, 10)) of a string of digits
StripZeros(s) ==
  IF Len(s) > 1 /\ Head(s) = "0" THEN StripZeros(Tail(s)) ELSE s

\* String(parseInt(String(id).trim(), 10)) as saveAndCompareResults applies it
normalizeId(id) == StripZeros(id)

(***************************************************************************)
(* Listings                                                                *)
(***************************************************************************)
\* scrapeListings: propertyTypes when the event names none
propertyTypes == <<"apartments-flats", "houses">>

\* result pages: the links a page carries, in document order
PageLinks == UNION {[1..n -> Hrefs] : n \in 0..MaxLinksOnPage}

\* Array.prototype.map
MapSeq(Op(_), s) ==
  IF s = <<>> THEN <<>> ELSE [i \in 1..Len(s) |-> Op(s[i])]

Range(s) == {s[i] : i \in 1..Len(s)}

\* Set.add on a Set kept in insertion order
AddUnique(s, x) == IF x \in Range(s) THEN s ELSE Append(s, x)

\* obj[k] = v
MapPut(f, k, v) == [x \in DOMAIN f \cup {k} |-> IF x = k THEN v ELSE f[x]]

\* createCompactListing: the stored record has no error marker
createCompactListing(listing) ==
  [id |-> listing.id, url |-> listing.url,
   propertyType |-> listing.propertyType, error |-> FALSE]

\* scrapeListings: previousIds, the ids of the loaded listings as stored
previousIdsOf(listings) == {listings[i].id : i \in 1..Len(listings)}

\* scrapeListings: previousListingsById[id], the last loaded listing with that id
previousListingsById(listings, id) ==
  listings[Max({i \in 1..Len(listings) : listings[i].id = id})]

(***************************************************************************)
(* extractListingUrls                                                      *)
(***************************************************************************)
\* the result structure at the start of a discovery call
InitialResult ==
  [allUrls |-> <<>>, newUrls |-> <<>>, skippedIds |-> <<>>,
   idsByUrlMap |-> [u \in {} |-> null], urlSet |-> {},
   estimatedTimeSaved |-> "number", error |-> FALSE]

\* variant: the outer catch returns the statistics fields as well
ErrorResultWithStats ==
  [allUrls |-> <<>>, newUrls |-> <<>>, skippedIds |-> <<>>,
   idsByUrlMap |-> [u \in {} |-> null], urlSet |-> {},
   estimatedTimeSaved |-> "number", error |-> TRUE]

\* the value the outer catch returns: no estimatedTimeSaved
ErrorResult ==
  [allUrls |-> <<>>, newUrls |-> <<>>, skippedIds |-> <<>>,
   idsByUrlMap |-> [u \in {} |-> null], urlSet |-> {},
   estimatedTimeSaved |-> "undefined", error |-> TRUE]

\* whether a link is skipped: id && knownIds && skipKnown && knownIds.has(id)
IsKnown(id, knownIds) == id # null /\ id \in knownIds

\* the body of the loop over adLinks for one link
LinkStep(r, href, knownIds) ==
  LET fullUrl == BASE_URL \o href
      id == extractAdId(fullUrl)
  IN IF fullUrl \in r.urlSet THEN r
     ELSE IF IsKnown(id, knownIds)
       THEN [r EXCEPT !.urlSet = @ \cup {fullUrl},
                      !.skippedIds = AddUnique(@, id),
                      !.allUrls = Append(@, fullUrl)]
       ELSE [r EXCEPT !.urlSet = @ \cup {fullUrl},
                      !.newUrls = Append(@, fullUrl),
                      !.allUrls = Append(@, fullUrl),
                      !.idsByUrlMap = IF id # null THEN MapPut(@, fullUrl, id) ELSE @]

RECURSIVE ProcessLinks(_, _, _)
\* the loop over the adLinks of one page
ProcessLinks(r, links, knownIds) ==
  IF links = <<>> THEN r
  ELSE ProcessLinks(LinkStep(r, Head(links), knownIds), Tail(links), knownIds)

\* pagination ends: if (!foundNextPage || page >= maxPages) break
LastPage(foundNextPage, p) == ~foundNextPage \/ p >= MaxPages

\* variant: a failed page fetch throws on every page
FetchFailureAlwaysFatal(p) == p >= 1

\* a failed page fetch throws on the first page only
FetchFailureIsFatal(p) == p = 1

(***************************************************************************)
(* saveAndCompareResults                                                   *)
(***************************************************************************)
\* variant: the ids of the loaded state are compared as stored
diffPreviousIdsRaw(listings) ==
  {listings[i].id : i \in {j \in 1..Len(listings) : listings[j].id # null}}

\* previousIds: normalized ids of the loaded state
diffPreviousIds(listings) ==
  {normalizeId(listings[i].id) : i \in {j \in 1..Len(listings) : listings[j].id # null}}

\* normalizedCurrentIds, in insertion order: a Set keeps the first add of a value
normalizedCurrentIds(listings) ==
  LET withId == SelectSeq(listings, LAMBDA l : l.id # null)
      ids == MapSeq(LAMBDA l : normalizeId(l.id), withId)
      first(p) == \A j \in 1..(p[1] - 1) : ids[j] # p[2]
  IN MapSeq(LAMBDA p : p[2],
            SelectSeq(MapSeq(LAMBDA i : <<i, ids[i]>>, [i \in 1..Len(ids) |-> i]),
                      first))

\* normalizedIdMap[id]: the last current listing with that normalized id
normalizedIdMap(listings, nid) ==
  listings[Max({i \in 1..Len(listings) :
                  listings[i].id # null /\ normalizeId(listings[i].id) = nid})]

\* newIds of the branch taken when the loaded state has no ids
SeedNewIds(cur, forceNotification) == IF forceNotification THEN cur ELSE <<>>

\* variant: every run is treated like a seeding run
NewIdsSeedOnly(cur, prevIds, isFirstRun, forceNotification) ==
  SeedNewIds(cur, forceNotification)

\* newIds: the three branches of the comparison
NewIds(cur, prevIds, isFirstRun, forceNotification) ==
  IF isFirstRun THEN SeedNewIds(cur, forceNotification)
  ELSE IF prevIds = {} THEN SeedNewIds(cur, forceNotification)
  ELSE SelectSeq(cur, LAMBDA id : id \notin prevIds)

\* newIds.length > 50 of the warning about unusually many new listings
AnomalyMinNew == 50

\* whether the comparison logs that warning: only its last branch does, when
\* newIds.length > 50 && newIds.length > normalizedCurrentIds.size * 0.25
AnomalyWarned(listings, prevListings, isFirstRun) ==
  LET prevIds == diffPreviousIds(prevListings)
      cur == normalizedCurrentIds(listings)
      n == Len(SelectSeq(cur, LAMBDA id : id \notin prevIds))
  IN /\ ~isFirstRun
     /\ prevIds # {}
     /\ n > AnomalyMinNew
     /\ 4 * n > Len(cur)

\* removedIds
RemovedIds(cur, prevIds) == {id \in prevIds : id \notin Range(cur)}

\* the value saveAndCompareResults returns when the store took the new state
DiffResult(listings, prevListings, isFirstRun, forceNotification) ==
  LET prevIds == diffPreviousIds(prevListings)
      cur == normalizedCurrentIds(listings)
      newIds == NewIds(cur, prevIds, isFirstRun, forceNotification)
      removedIds == RemovedIds(cur, prevIds)
  IN [currentListings |-> listings,
      newListings |-> MapSeq(LAMBDA id : normalizedIdMap(listings, id), newIds),
      removedListings |->
        SelectSeq(prevListings,
                  LAMBDA l : l.id # null /\ normalizeId(l.id) \in removedIds),
      isFirstRun |-> isFirstRun]

\* the state written: compact records of all processed listings
CurrentState(listings) ==
  [exists |-> TRUE, listings |-> MapSeq(createCompactListing, listings)]

(***************************************************************************)
(* The handler invocation                                                  *)
(***************************************************************************)
NoResults ==
  [currentListings |-> <<>>, newListings |-> <<>>,
   removedListings |-> <<>>, isFirstRun |-> FALSE]

NoDiffIO == [called |-> FALSE, get |-> "none", put |-> "none", warned |-> FALSE]

NoResponse == [statusCode |-> 0, success |-> FALSE, totalListings |-> 0,
               newListings |-> 0, removedListings |-> 0]

Running == {"load", "discover", "process", "details", "save", "notify", "catch"}

\* variant: the loop over propertyTypes ends after the first type
ScrapeDoneAfterFirst(idx) == idx > 1

\* the for-loop over propertyTypes is over
ScrapeDone(idx) == idx > Len(scrapeTypes)

\* where scrapeListings goes on after the property type idx is finished
AfterType(idx) == IF ScrapeDone(idx + 1) THEN "save" ELSE "discover"

\* the locals of scrapeListings go out of scope
LocalsGone ==
  /\ previousListings' = <<>>
  /\ typeIdx' = 1
  /\ page' = 1
  /\ urlResults' = InitialResult
  /\ detailQueue' = <<>>
  /\ newListings' = <<>>
  /\ allCurrentListings' = <<>>
  /\ allProcessedIds' = {}

\* the kinds of message sendTelegramNotification posts
Kinds == {"summary", "tooMany", "firstRun", "announce", "listingText",
          "listingImage", "removedList", "removedCount"}

\* no request posted yet
NoSend == [kind |-> "none", index |-> 0, outcome |-> "none"]

\* no call of splitLongMessage or sendTelegramNotification is under way
MessagingIdle ==
  /\ message = <<>>
  /\ maxLength = 0
  /\ chunks = [returned |-> FALSE, parts |-> <<>>]
  /\ telegramEnv = [skip |-> FALSE, configured |-> TRUE]
  /\ tg = [pc |-> "idle", i |-> 0, delivered |-> "none"]
  /\ attempts = [k \in Kinds |-> 0]
  /\ sends = [last |-> NoSend, prev |-> NoSend, failed |-> 0]

\* a single filter key and a single invocation at a time
ConcurrentIdle ==
  /\ bucket = <<>>
  /\ runs = <<>>

\* no invocation of the handler yet, and no snapshot
HandlerIdle ==
  /\ store = [exists |-> FALSE, listings |-> <<>>]
  /\ scrapeTypes = propertyTypes
  /\ envForce = FALSE
  /\ pc = "idle"
  /\ eventForce = FALSE
  /\ previousListings = <<>>
  /\ typeIdx = 1
  /\ page = 1
  /\ urlResults = InitialResult
  /\ detailQueue = <<>>
  /\ newListings = <<>>
  /\ allCurrentListings = <<>>
  /\ allProcessedIds = {}
  /\ results = NoResults
  /\ diffIO = NoDiffIO
  /\ notifyCalls = <<>>
  /\ response = NoResponse
  /\ hist = [fetched |-> {}, links |-> 0, writes |-> 0,
             storeAtStart |-> [exists |-> FALSE, listings |-> <<>>],
             emptyFirstPage |-> FALSE, firstPageFailed |-> FALSE,
             seen |-> {}, laterPageFailed |-> FALSE, loadFailed |-> FALSE]

Init == HandlerIdle /\ MessagingIdle /\ ConcurrentIdle

\* handler is invoked with an event without propertyType; the invocation
\* before it is over
Invoke ==
  /\ pc \in {"idle", "done", "killed"}
  /\ eventForce' = FALSE
  /\ envForce' = FALSE
  /\ pc' = "load"
  /\ LocalsGone
  /\ results' = NoResults
  /\ diffIO' = NoDiffIO
  /\ notifyCalls' = <<>>
  /\ response' = NoResponse
  /\ hist' = [fetched |-> {}, links |-> 0, writes |-> 0,
              storeAtStart |-> store,
              emptyFirstPage |-> FALSE, firstPageFailed |-> FALSE,
              seen |-> {}, laterPageFailed |-> FALSE, loadFailed |-> FALSE]
  /\ UNCHANGED store
  /\ UNCHANGED messagingVars
  /\ UNCHANGED concurrentVars
  /\ scrapeTypes' = propertyTypes

\* loadPreviousResults: the listings of the newest object under the filter prefix;
\* a failed list or get is logged and leaves the empty default
loadPreviousResults(st, storeUp) ==
  IF storeUp /\ st.exists THEN st.listings ELSE <<>>

\* scrapeListings up to the loop over the property types
LoadPrevious ==
  /\ pc = "load"
  /\ \E storeUp \in BOOLEAN :
       /\ previousListings' = loadPreviousResults(store, storeUp)
       /\ hist' = [hist EXCEPT !.loadFailed = ~storeUp]
  /\ pc' = "discover"
  /\ UNCHANGED <<store, envForce, eventForce, typeIdx, page, urlResults, detailQueue,
                 newListings, allCurrentListings, allProcessedIds, results, diffIO,
                 notifyCalls, response>>
  /\ UNCHANGED messagingVars
  /\ UNCHANGED concurrentVars
  /\ UNCHANGED scrapeTypes

\* extractListingUrls: one pass of the loop over the result pages
FetchPage ==
  /\ pc = "discover"
  /\ \E ok \in BOOLEAN, links \in PageLinks, foundNextPage \in BOOLEAN :
       /\ ~ok => links = <<>> /\ ~foundNextPage
       /\ hist.links + Len(links) <= MaxListings
       /\ IF ~ok
            THEN /\ urlResults' = IF FetchFailureIsFatal(page) THEN ErrorResult
                                  ELSE urlResults
                 /\ pc' = "process"
                 /\ page' = page
                 /\ hist' = [hist EXCEPT !.firstPageFailed = @ \/ page = 1,
                                         !.laterPageFailed = page > 1]
            ELSE /\ urlResults' = ProcessLinks(urlResults, links,
                                               previousIdsOf(previousListings))
                 /\ pc' = IF LastPage(foundNextPage, page) THEN "process" ELSE "discover"
                 /\ page' = IF LastPage(foundNextPage, page) THEN page ELSE page + 1
                 /\ hist' = [hist EXCEPT
                      !.links = @ + Len(links),
                      !.emptyFirstPage = @ \/ (page = 1 /\ links = <<>>),
                      !.seen = @ \cup {BASE_URL \o links[i] : i \in 1..Len(links)}]
  /\ UNCHANGED <<store, envForce, eventForce, previousListings, typeIdx, detailQueue,
                 newListings, allCurrentListings, allProcessedIds, results, diffIO,
                 notifyCalls, response>>
  /\ UNCHANGED messagingVars
  /\ UNCHANGED concurrentVars
  /\ UNCHANGED scrapeTypes

\* scrapeListings: newListingUrls, the new URLs that carry an id
newListingUrls(r) ==
  LET idOf(url) == IF url \in DOMAIN r.idsByUrlMap /\ r.idsByUrlMap[url] # null
                     THEN r.idsByUrlMap[url] ELSE extractAdId(url)
  IN MapSeq(LAMBDA url : [url |-> url, id |-> idOf(url)],
            SelectSeq(r.newUrls, LAMBDA url : idOf(url) # null))

\* variant: the unchanged listings are not taken over
reusedListingsNone(r, prev) == <<>>

\* scrapeListings: the prior records taken over for the unchanged ids
reusedListings(r, prev) ==
  MapSeq(LAMBDA id : previousListingsById(prev, id),
         SelectSeq(r.skippedIds, LAMBDA id : id \in previousIdsOf(prev)))

\* scrapeListings: what follows a discovery call, up to the detail loop
ProcessType ==
  /\ pc = "process"
  /\ IF urlResults.estimatedTimeSaved = "undefined"
       THEN \* urlResults.estimatedTimeSaved.toFixed(1) throws a TypeError
            \* that the catch of scrapeListings throws on to the handler
            /\ pc' = "catch"
            /\ LocalsGone
            /\ hist' = [hist EXCEPT !.seen = {}]
       ELSE /\ UNCHANGED <<previousListings, newListings>>
            /\ allProcessedIds' = allProcessedIds
                 \cup {l.id : l \in Range(newListingUrls(urlResults))}
                 \cup Range(urlResults.skippedIds)
            /\ allCurrentListings' =
                 allCurrentListings \o reusedListings(urlResults, previousListings)
            /\ detailQueue' = newListingUrls(urlResults)
            /\ IF newListingUrls(urlResults) # <<>>
                 THEN /\ pc' = "details"
                      /\ UNCHANGED <<typeIdx, page, urlResults, hist>>
                 ELSE /\ pc' = AfterType(typeIdx)
                      /\ typeIdx' = typeIdx + 1
                      /\ page' = 1
                      /\ urlResults' = InitialResult
                      /\ hist' = [hist EXCEPT !.seen = {}, !.laterPageFailed = FALSE]
  /\ UNCHANGED <<store, envForce, eventForce, results, diffIO, notifyCalls, response>>
  /\ UNCHANGED messagingVars
  /\ UNCHANGED concurrentVars
  /\ UNCHANGED scrapeTypes

\* variant: the catch block does not recover the id from the URL
extractListingDetailsErrorId(url, propertyType, ok) ==
  [id |-> IF ~ok THEN <<"error">>
          ELSE IF extractAdId(url) # null THEN extractAdId(url) ELSE <<"unknown">>,
   url |-> url, propertyType |-> propertyType, error |-> ~ok]

\* extractListingDetails merged over the base record: never throws
extractListingDetails(url, propertyType, ok) ==
  [id |-> IF extractAdId(url) # null THEN extractAdId(url)
          ELSE IF ok THEN <<"unknown">> ELSE <<"error">>,
   url |-> url, propertyType |-> propertyType, error |-> ~ok]

\* scrapeListings: one pass of the detail loop
FetchDetails ==
  /\ pc = "details"
  /\ detailQueue # <<>>
  /\ \E ok \in BOOLEAN :
       LET newListing == extractListingDetails(Head(detailQueue).url,
                                               scrapeTypes[typeIdx], ok)
       IN /\ newListings' = Append(newListings, newListing)
          /\ allCurrentListings' = Append(allCurrentListings, newListing)
  /\ detailQueue' = Tail(detailQueue)
  /\ IF Tail(detailQueue) = <<>>
       THEN /\ pc' = AfterType(typeIdx)
            /\ typeIdx' = typeIdx + 1
            /\ page' = 1
            /\ urlResults' = InitialResult
            /\ hist' = [hist EXCEPT !.fetched = @ \cup {Head(detailQueue).url},
                                    !.seen = {}, !.laterPageFailed = FALSE]
       ELSE /\ UNCHANGED <<pc, typeIdx, page, urlResults>>
            /\ hist' = [hist EXCEPT !.fetched = @ \cup {Head(detailQueue).url}]
  /\ UNCHANGED <<store, envForce, eventForce, previousListings, allProcessedIds,
                 results, diffIO, notifyCalls, response>>
  /\ UNCHANGED messagingVars
  /\ UNCHANGED concurrentVars
  /\ UNCHANGED scrapeTypes

\* the outcome of s3.getObject for the state key
GetOutcome(st, storeUp) ==
  IF ~storeUp THEN "error" ELSE IF st.exists THEN "ok" ELSE "NoSuchKey"

\* saveAndCompareResults, called by the handler with the scraped listings
SaveAndCompare ==
  /\ pc = "save"
  /\ \E getUp \in BOOLEAN, putUp \in BOOLEAN, forceNotification \in BOOLEAN :
       LET get == GetOutcome(store, getUp)
           previousState == IF get = "ok" THEN store.listings ELSE <<>>
           isFirstRun == get = "NoSuchKey"
       IN /\ envForce' = forceNotification
          /\ diffIO' = [called |-> TRUE, get |-> get,
                        put |-> IF putUp THEN "ok" ELSE "error",
                        warned |-> AnomalyWarned(allCurrentListings, previousState,
                                                 isFirstRun)]
          /\ IF putUp
               THEN /\ store' = CurrentState(allCurrentListings)
                    /\ results' = DiffResult(allCurrentListings, previousState,
                                             isFirstRun, forceNotification)
                    /\ hist' = [hist EXCEPT !.writes = @ + 1]
                    /\ pc' = "notify"
                    /\ UNCHANGED <<previousListings, typeIdx, page, urlResults,
                                   detailQueue, newListings, allCurrentListings,
                                   allProcessedIds>>
               ELSE \* putObject rejects; the catch block reads processedListings,
                    \* a const of the try block: a ReferenceError leaves the function
                    /\ store' = store
                    /\ results' = results
                    /\ hist' = hist
                    /\ pc' = "catch"
                    /\ LocalsGone
  /\ UNCHANGED <<eventForce, notifyCalls, response>>
  /\ UNCHANGED messagingVars
  /\ UNCHANGED concurrentVars
  /\ UNCHANGED scrapeTypes

\* handler: sendTelegramNotification(results, force, runId) and the 200 response;
\* the locals of scrapeListings are gone when the handler returns
Notify ==
  /\ pc = "notify"
  /\ \E force \in BOOLEAN :
       /\ eventForce' = force
       /\ notifyCalls' = Append(notifyCalls, [force |-> force, error |-> FALSE,
                                              isFirstRun |-> results.isFirstRun])
  /\ response' = [statusCode |-> 200, success |-> TRUE,
                  totalListings |-> Len(allCurrentListings),
                  newListings |-> Len(results.newListings),
                  removedListings |-> Len(results.removedListings)]
  /\ pc' = "done"
  /\ LocalsGone
  /\ UNCHANGED <<store, envForce, results, diffIO, hist>>
  /\ UNCHANGED messagingVars
  /\ UNCHANGED concurrentVars
  /\ UNCHANGED scrapeTypes

\* handler: the catch block, a forced error notification and the 500 response
Catch ==
  /\ pc = "catch"
  /\ notifyCalls' = Append(notifyCalls, [force |-> TRUE, error |-> TRUE,
                                         isFirstRun |-> FALSE])
  /\ response' = [statusCode |-> 500, success |-> FALSE, totalListings |-> 0,
                  newListings |-> 0, removedListings |-> 0]
  /\ pc' = "done"
  /\ UNCHANGED <<store, envForce, eventForce, previousListings, typeIdx, page,
                 urlResults, detailQueue, newListings, allCurrentListings,
                 allProcessedIds, results, diffIO, hist>>
  /\ UNCHANGED messagingVars
  /\ UNCHANGED concurrentVars
  /\ UNCHANGED scrapeTypes

\* the host ends the invocation at its time limit, wherever it stands; what the
\* invocation held in memory is gone
Timeout ==
  /\ pc \in Running
  /\ pc' = "killed"
  /\ LocalsGone
  /\ results' = NoResults
  /\ response' = NoResponse
  /\ envForce' = FALSE
  /\ eventForce' = FALSE
  /\ diffIO' = NoDiffIO
  /\ notifyCalls' = <<>>
  /\ hist' = [hist EXCEPT !.fetched = {}, !.links = 0, !.emptyFirstPage = FALSE,
                          !.firstPageFailed = FALSE, !.seen = {},
                          !.laterPageFailed = FALSE, !.loadFailed = FALSE]
  /\ UNCHANGED store
  /\ UNCHANGED messagingVars
  /\ UNCHANGED concurrentVars
  /\ UNCHANGED scrapeTypes

Next ==
  \/ Invoke
  \/ LoadPrevious
  \/ FetchPage
  \/ ProcessType
  \/ FetchDetails
  \/ SaveAndCompare
  \/ Notify
  \/ Catch
  \/ Timeout

Spec == Init /\ [][Next]_vars

(***************************************************************************)
(* Invocations that scan one property type                                 *)
(***************************************************************************)
\* handler is invoked with an event that names a propertyType: scrapeListings
\* scans that type only, under the same filter key
InvokeWithPropertyType ==
  /\ pc \in {"idle", "done", "killed"}
  /\ eventForce' = FALSE
  /\ envForce' = FALSE
  /\ pc' = "load"
  /\ LocalsGone
  /\ results' = NoResults
  /\ diffIO' = NoDiffIO
  /\ notifyCalls' = <<>>
  /\ response' = NoResponse
  /\ hist' = [fetched |-> {}, links |-> 0, writes |-> 0,
              storeAtStart |-> store,
              emptyFirstPage |-> FALSE, firstPageFailed |-> FALSE,
              seen |-> {}, laterPageFailed |-> FALSE, loadFailed |-> FALSE]
  /\ UNCHANGED store
  /\ UNCHANGED messagingVars
  /\ UNCHANGED concurrentVars
  /\ \E propertyType \in Range(propertyTypes) :
       scrapeTypes' = <<propertyType>>

PartitionNext ==
  \/ Next
  \/ InvokeWithPropertyType

PartitionSpec == Init /\ [][PartitionNext]_vars

(***************************************************************************)
(* saveAndCompareResults on large listing sets                             *)
(***************************************************************************)
DigitChar == <<"0", "1", "2", "3", "4", "5", "6", "7", "8", "9">>

RECURSIVE ToDigits(_)
\* String(n) of a natural number
ToDigits(n) ==
  IF n < 10 THEN <<DigitChar[n + 1]>>
  ELSE ToDigits(n \div 10) \o <<DigitChar[(n % 10) + 1]>>

\* the listing scraped from .../adv/<n>/
numberedListing(n) ==
  [id |-> ToDigits(n),
   url |-> BASE_URL \o <<"/", "adv", "/">> \o ToDigits(n) \o <<"/">>,
   propertyType |-> "houses", error |-> FALSE]

\* sizes of the prior snapshot and numbers of new listings tried
PriorSizes == {0, 1, 100, 160}

NewSizes == {0, 1, AnomalyMinNew, AnomalyMinNew + 1, AnomalyMinNew + 10}

\* the handler about to call saveAndCompareResults: the snapshot holds the
\* listings 1..prior, the run scraped 1..kept of them and fresh more
DiffInit ==
  /\ MessagingIdle
  /\ ConcurrentIdle
  /\ scrapeTypes = propertyTypes
  /\ \E prior \in PriorSizes, kept \in PriorSizes, fresh \in NewSizes :
       /\ kept <= prior
       /\ store = [exists |-> TRUE,
                   listings |-> [i \in 1..prior |->
                                   createCompactListing(numberedListing(i))]]
       /\ allCurrentListings =
            [i \in 1..(kept + fresh) |->
               IF i <= kept THEN createCompactListing(numberedListing(i))
               ELSE numberedListing(prior + i - kept)]
       /\ previousListings = store.listings
       /\ newListings = [i \in 1..fresh |-> numberedListing(prior + i)]
       /\ allProcessedIds = {allCurrentListings[i].id : i \in 1..(kept + fresh)}
  /\ envForce = FALSE
  /\ pc = "save"
  /\ eventForce = FALSE
  /\ typeIdx = Len(propertyTypes) + 1
  /\ page = 1
  /\ urlResults = InitialResult
  /\ detailQueue = <<>>
  /\ results = NoResults
  /\ diffIO = NoDiffIO
  /\ notifyCalls = <<>>
  /\ response = NoResponse
  /\ hist = [fetched |-> {newListings[i].url : i \in 1..Len(newListings)},
             links |-> Len(allCurrentListings), writes |-> 0,
             storeAtStart |-> store,
             emptyFirstPage |-> FALSE, firstPageFailed |-> FALSE,
             seen |-> {}, laterPageFailed |-> FALSE, loadFailed |-> FALSE]

DiffNext ==
  \/ SaveAndCompare
  \/ Notify
  \/ Catch

DiffSpec == DiffInit /\ [][DiffNext]_vars

(***************************************************************************)
(* splitLongMessage                                                        *)
(***************************************************************************)
\* longest message tried
MaxMessageLen == 5

\* largest maxLength tried
MaxChunkLen == 3

\* the characters of a message: a letter and the line break
Chars == {"a", "\n"}

Messages == UNION {[1..n -> Chars] : n \in 1..MaxMessageLen}

RECURSIVE SplitLines(_)
\* message.split('\n')
SplitLines(s) ==
  LET breaks == {i \in 1..Len(s) : s[i] = "\n"}
  IN IF breaks = {} THEN <<s>>
     ELSE <<SubSeq(s, 1, Min(breaks) - 1)>>
            \o SplitLines(SubSeq(s, Min(breaks) + 1, Len(s)))

\* one turn of the loop over the lines
SplitStep(acc, line, limit) ==
  IF Len(acc.currentChunk) + Len(line) + 1 > limit
    THEN [chunks |-> Append(acc.chunks, acc.currentChunk), currentChunk |-> line]
    ELSE [chunks |-> acc.chunks,
          currentChunk |-> acc.currentChunk
                             \o (IF acc.currentChunk # <<>> THEN <<"\n">> ELSE <<>>)
                             \o line]

RECURSIVE SplitLoop(_, _, _)
SplitLoop(acc, lines, limit) ==
  IF lines = <<>> THEN acc
  ELSE SplitLoop(SplitStep(acc, Head(lines), limit), Tail(lines), limit)

splitLongMessage(text, limit) ==
  IF Len(text) <= limit THEN <<text>>
  ELSE LET r == SplitLoop([chunks |-> <<>>, currentChunk |-> <<>>],
                          SplitLines(text), limit)
       IN IF r.currentChunk # <<>> THEN Append(r.chunks, r.currentChunk)
          ELSE r.chunks

\* a non-empty text and a positive maxLength, splitLongMessage not yet called
SplitInit ==
  /\ HandlerIdle
  /\ ConcurrentIdle
  /\ message \in Messages
  /\ maxLength \in 1..MaxChunkLen
  /\ chunks = [returned |-> FALSE, parts |-> <<>>]
  /\ telegramEnv = [skip |-> FALSE, configured |-> TRUE]
  /\ tg = [pc |-> "idle", i |-> 0, delivered |-> "none"]
  /\ attempts = [k \in Kinds |-> 0]
  /\ sends = [last |-> NoSend, prev |-> NoSend, failed |-> 0]

\* const messageChunks = splitLongMessage(text, maxLength)
Split ==
  /\ ~chunks.returned
  /\ message # <<>>
  /\ chunks' = [returned |-> TRUE, parts |-> splitLongMessage(message, maxLength)]
  /\ UNCHANGED <<store, envForce, pc, eventForce, previousListings, typeIdx, page,
                 urlResults, detailQueue, newListings, allCurrentListings,
                 allProcessedIds, results, diffIO, notifyCalls, response, hist,
                 message, maxLength, telegramEnv, tg, attempts, sends>>
  /\ UNCHANGED concurrentVars
  /\ UNCHANGED scrapeTypes

SplitNext == Split

SplitSpec == SplitInit /\ [][SplitNext]_vars

(***************************************************************************)
(* sendTelegramNotification, called by the handler after the diff.         *)
(* Every text is short enough for one part, and a listing has at most ten  *)
(* images, which go out in one request.                                    *)
(***************************************************************************)
\* newCount > 20: no detail messages
TooManyNew == 20

\* removedCount <= 20: the removed listings are itemised
TooManyRemoved == 20

\* most requests of one call that the endpoint answers with a failure
MaxFailures == 1

\* answers of the endpoint to a request: 200 with ok, 200 without ok, 429
\* (axios throws), any other failure (axios throws)
Outcomes ==
  IF sends.failed < MaxFailures THEN {"ok", "notOk", "throttled", "error"}
  ELSE {"ok"}

\* axios.post rejects
Throws(outcome) == outcome \in {"throttled", "error"}

\* the removed-listings message, if any, and the return
AfterListings(changes) ==
  IF changes.removedListings = <<>> THEN "returned"
  ELSE IF Len(changes.removedListings) <= TooManyRemoved THEN "removedList"
  ELSE "removedCount"

\* variant: the detail messages are left out
AfterFirstRunNoticeWithoutDetails(changes) == AfterListings(changes)

\* if (hasNewListings): the announcement when newCount > 1, then the loop
AfterFirstRunNotice(changes) ==
  IF changes.newListings = <<>> THEN AfterListings(changes)
  ELSE IF Len(changes.newListings) > 1 THEN "announce"
  ELSE "listing"

\* what follows the summary message
AfterSummary(changes, force, envForced) ==
  LET forceNotification == envForced \/ force
      newCount == Len(changes.newListings)
  IN IF \/ changes.isFirstRun /\ ~forceNotification
        \/ newCount > TooManyNew /\ ~forceNotification
       THEN "tooMany"
     ELSE IF changes.isFirstRun /\ forceNotification THEN "firstRun"
     ELSE AfterFirstRunNotice(changes)

\* the early returns with one more, when there is nothing to report
EarlyReturnWithoutChanges(env, changes, force) ==
  IF env.skip THEN "true"
  ELSE IF ~env.configured THEN "false"
  ELSE IF changes.isFirstRun /\ ~force THEN "true"
  ELSE IF changes.newListings = <<>> /\ changes.removedListings = <<>> THEN "true"
  ELSE "none"

\* the early returns of sendTelegramNotification: the value returned, or
\* "none" when the call goes on to the summary
EarlyReturn(env, changes, force) ==
  IF env.skip THEN "true"
  ELSE IF ~env.configured THEN "false"
  ELSE IF changes.isFirstRun /\ ~force THEN "true"
  ELSE "none"

\* the dispatcher moves on; reaching the end of the try block it returns true
Goto(next) ==
  [pc |-> next,
   i |-> IF next = "listing" THEN 1 ELSE 0,
   delivered |-> IF next = "returned" THEN "true" ELSE "none"]

\* the loop over changes.newListings goes to the next listing or ends
NextListing(changes) ==
  IF tg.i < Len(changes.newListings)
    THEN [pc |-> "listing", i |-> tg.i + 1, delivered |-> "none"]
    ELSE Goto(AfterListings(changes))

\* a request of the dispatcher has thrown and its handler lets the error through
NotificationErrorEscalates(at) == "catch"

\* a request of the dispatcher has thrown: the catch block of
\* sendTelegramNotification logs and returns false, the handler goes on
NotificationErrorContained(at) == at

\* one request posted to the endpoint
Posted(kind, index, outcome) ==
  /\ attempts' = [attempts EXCEPT ![kind] = @ + 1]
  /\ sends' = [last |-> [kind |-> kind, index |-> index, outcome |-> outcome],
               prev |-> sends.last,
               failed |-> sends.failed + (IF outcome = "ok" THEN 0 ELSE 1)]

\* await sendTelegramMessage(text) in the try block of sendTelegramNotification
TopLevelSend(kind, next) ==
  /\ pc = "notify"
  /\ tg.pc = kind
  /\ \E outcome \in Outcomes :
       /\ Posted(kind, 0, outcome)
       /\ tg' = IF Throws(outcome)
                  THEN [pc |-> "returned", i |-> 0, delivered |-> "false"]
                  ELSE Goto(next)
       /\ pc' = IF Throws(outcome) THEN NotificationErrorContained(pc) ELSE pc
  /\ UNCHANGED <<store, envForce, eventForce, previousListings, typeIdx, page,
                 urlResults, detailQueue, newListings, allCurrentListings,
                 allProcessedIds, results, diffIO, notifyCalls, response, hist,
                 message, maxLength, chunks, telegramEnv>>
  /\ UNCHANGED concurrentVars
  /\ UNCHANGED scrapeTypes

\* handler: force = event?.force === true, and the call of
\* sendTelegramNotification up to its early returns
CallDispatcher ==
  /\ pc = "notify"
  /\ tg.pc = "idle"
  /\ \E force \in BOOLEAN :
       /\ eventForce' = force
       /\ notifyCalls' = Append(notifyCalls, [force |-> force, error |-> FALSE,
                                              isFirstRun |-> results.isFirstRun])
       /\ tg' = LET early == EarlyReturn(telegramEnv, results, force)
                IN IF early = "none" THEN Goto("summary")
                   ELSE [pc |-> "returned", i |-> 0, delivered |-> early]
  /\ UNCHANGED <<store, envForce, pc, previousListings, typeIdx, page,
                 urlResults, detailQueue, newListings, allCurrentListings,
                 allProcessedIds, results, diffIO, response, hist,
                 message, maxLength, chunks, telegramEnv, attempts, sends>>
  /\ UNCHANGED concurrentVars
  /\ UNCHANGED scrapeTypes

SendSummary == TopLevelSend("summary", AfterSummary(results, eventForce, envForce))

\* the message that the detail messages are skipped, and return true
SendTooMany == TopLevelSend("tooMany", "returned")

SendFirstRunNotice == TopLevelSend("firstRun", AfterFirstRunNotice(results))

SendAnnouncement == TopLevelSend("announce", "listing")

SendRemovedList == TopLevelSend("removedList", "returned")

SendRemovedCount == TopLevelSend("removedCount", "returned")

\* sendSingleListingMessage: the text of listing i; a throw is caught by the
\* function's own catch block, which skips the listing's images
SendListingText ==
  /\ pc = "notify"
  /\ tg.pc = "listing"
  /\ \E outcome \in Outcomes, hasImages \in BOOLEAN :
       /\ Posted("listingText", tg.i, outcome)
       /\ tg' = IF Throws(outcome) \/ ~hasImages THEN NextListing(results)
                ELSE [tg EXCEPT !.pc = "image"]
  /\ UNCHANGED <<store, envForce, pc, eventForce, previousListings, typeIdx, page,
                 urlResults, detailQueue, newListings, allCurrentListings,
                 allProcessedIds, results, diffIO, notifyCalls, response, hist,
                 message, maxLength, chunks, telegramEnv>>
  /\ UNCHANGED concurrentVars
  /\ UNCHANGED scrapeTypes

\* sendSingleListingMessage: the photo or media group of listing i; a throw is
\* caught by the inner catch block
SendListingImages ==
  /\ pc = "notify"
  /\ tg.pc = "image"
  /\ \E outcome \in Outcomes :
       Posted("listingImage", tg.i, outcome)
  /\ tg' = NextListing(results)
  /\ UNCHANGED <<store, envForce, pc, eventForce, previousListings, typeIdx, page,
                 urlResults, detailQueue, newListings, allCurrentListings,
                 allProcessedIds, results, diffIO, notifyCalls, response, hist,
                 message, maxLength, chunks, telegramEnv>>
  /\ UNCHANGED concurrentVars
  /\ UNCHANGED scrapeTypes

\* handler: the 200 response after sendTelegramNotification has returned
Respond ==
  /\ pc = "notify"
  /\ tg.pc = "returned"
  /\ response' = [statusCode |-> 200, success |-> TRUE,
                  totalListings |-> Len(allCurrentListings),
                  newListings |-> Len(results.newListings),
                  removedListings |-> Len(results.removedListings)]
  /\ pc' = "done"
  /\ LocalsGone
  /\ UNCHANGED <<store, envForce, eventForce, results, diffIO, notifyCalls, hist,
                 messagingVars>>
  /\ UNCHANGED concurrentVars
  /\ UNCHANGED scrapeTypes

\* sizes of the prior snapshot and numbers of new listings tried
DispatchPriorSizes == {0, 1, TooManyRemoved + 1}

DispatchNewSizes == {0, 1, TooManyNew, TooManyNew + 1}

\* the handler about to call saveAndCompareResults: no snapshot, or one with
\* the listings 1..prior; the run scraped 1..kept of them and fresh more
DispatchInit ==
  /\ ConcurrentIdle
  /\ scrapeTypes = propertyTypes
  /\ \E exists \in BOOLEAN, prior \in DispatchPriorSizes,
        kept \in DispatchPriorSizes, fresh \in DispatchNewSizes :
       /\ kept <= prior
       /\ ~exists => prior = 0
       /\ store = [exists |-> exists,
                   listings |-> [i \in 1..prior |->
                                   createCompactListing(numberedListing(i))]]
       /\ allCurrentListings =
            [i \in 1..(kept + fresh) |->
               IF i <= kept THEN createCompactListing(numberedListing(i))
               ELSE numberedListing(prior + i - kept)]
       /\ previousListings = store.listings
       /\ newListings = [i \in 1..fresh |-> numberedListing(prior + i)]
       /\ allProcessedIds = {allCurrentListings[i].id : i \in 1..(kept + fresh)}
  /\ \E skip \in BOOLEAN, configured \in BOOLEAN :
       telegramEnv = [skip |-> skip, configured |-> configured]
  /\ envForce = FALSE
  /\ pc = "save"
  /\ eventForce = FALSE
  /\ typeIdx = Len(propertyTypes) + 1
  /\ page = 1
  /\ urlResults = InitialResult
  /\ detailQueue = <<>>
  /\ results = NoResults
  /\ diffIO = NoDiffIO
  /\ notifyCalls = <<>>
  /\ response = NoResponse
  /\ hist = [fetched |-> {newListings[i].url : i \in 1..Len(newListings)},
             links |-> Len(allCurrentListings), writes |-> 0,
             storeAtStart |-> store,
             emptyFirstPage |-> FALSE, firstPageFailed |-> FALSE,
             seen |-> {}, laterPageFailed |-> FALSE, loadFailed |-> FALSE]
  /\ message = <<>>
  /\ maxLength = 0
  /\ chunks = [returned |-> FALSE, parts |-> <<>>]
  /\ tg = [pc |-> "idle", i |-> 0, delivered |-> "none"]
  /\ attempts = [k \in Kinds |-> 0]
  /\ sends = [last |-> NoSend, prev |-> NoSend, failed |-> 0]

DispatchNext ==
  \/ SaveAndCompare
  \/ CallDispatcher
  \/ SendSummary
  \/ SendTooMany
  \/ SendFirstRunNotice
  \/ SendAnnouncement
  \/ SendListingText
  \/ SendListingImages
  \/ SendRemovedList
  \/ SendRemovedCount
  \/ Respond
  \/ Catch

DispatchSpec == DispatchInit /\ [][DispatchNext]_vars

(***************************************************************************)
(* Invocations in flight at the same time.  The Lambda function has no     *)
(* reserved concurrency and two schedules target it; handler takes no      *)
(* lock.  Every run works on the objects of one bucket; a step is what a   *)
(* run does between two awaited S3 requests.  S3 answers every request,    *)
(* FORCE_NOTIFICATION is 'false' as deployed, and the bucket holds         *)
(* state.json objects only (DEBUG_MODE is off, so a dated key is never     *)
(* written and latestFile.Key !== key always holds).                       *)
(***************************************************************************)
\* number of invocations that may overlap
MaxRuns == 2

Runs == 1..MaxRuns

RESULTS_PREFIX == <<"results", "/">>

DEFAULT_PRICE_MAX == <<"1", "5", "0", "0">>

\* values of event.price_max, as digits
PriceMaxes == {<<"1", "5", "0">>, <<"1", "5", "0", "0">>}

\* handler: `price_max_${customFilters.price_max || DEFAULT_PRICE_MAX}`;
\* an event without price_max has price_max = null
filterKeyOf(price_max) ==
  <<"price_max_">> \o (IF price_max # null THEN price_max ELSE DEFAULT_PRICE_MAX)

\* saveAndCompareResults: `${RESULTS_PREFIX}${filterKey ? filterKey+'/' : ''}state.json`
stateKey(filterKey) ==
  RESULTS_PREFIX \o (IF filterKey # <<>> THEN filterKey \o <<"/">> ELSE <<>>)
                 \o <<"state.json">>

\* variant: the list prefix ends with the filter key, without the slash
filterPrefixWithoutSlash(filterKey) == RESULTS_PREFIX \o filterKey

\* loadPreviousResults: filterKey ? `${RESULTS_PREFIX}${filterKey}/` : RESULTS_PREFIX
filterPrefix(filterKey) ==
  IF filterKey # <<>> THEN RESULTS_PREFIX \o filterKey \o <<"/">> ELSE RESULTS_PREFIX

\* the keys of the bucket
Keys == {stateKey(filterKeyOf(price_max)) : price_max \in PriceMaxes}

\* listObjectsV2 matches the keys that start with Prefix
StartsWith(key, prefix) ==
  /\ Len(prefix) <= Len(key)
  /\ SubSeq(key, 1, Len(prefix)) = prefix

\* listedObjects.Contents for a prefix
listObjectsV2(b, prefix) == {k \in DOMAIN b : b[k].exists /\ StartsWith(k, prefix)}

\* sortedObjects[0]: the listed object with the newest LastModified
latestFile(b, objects) ==
  CHOOSE k \in objects : \A j \in objects : b[j].modified <= b[k].modified

\* LastModified of an object put now
Clock(b) == 1 + Max({b[k].modified : k \in DOMAIN b})

NoObject == [exists |-> FALSE, listings |-> <<>>, modified |-> 0]

\* the bucket at the start: a key has no object yet, or a snapshot without
\* listings or with listing 1, and no two objects were put at the same time
InitialBuckets ==
  {b \in [Keys -> {NoObject} \cup
                  [exists : {TRUE},
                   listings : {<<>>, <<createCompactListing(numberedListing(1))>>},
                   modified : 1..Cardinality(Keys)]] :
     \A j \in Keys, k \in Keys :
        (j # k /\ b[j].exists /\ b[k].exists) => b[j].modified # b[k].modified}

\* an invocation that has not started
NoRun == [pc |-> "idle", filterKey |-> null, latestKey |-> null,
          previousListings |-> <<>>, listings |-> <<>>, previousState |-> <<>>,
          isFirstRun |-> FALSE, basis |-> 0, reported |-> {},
          reads |-> {}, writes |-> {}, overlapped |-> {}, stale |-> FALSE]

\* position of a run between handler's first line and its return
InFlight(r) == runs[r].pc \notin {"idle", "done"}

\* scrapeListings: a listing known from the loaded results is taken over,
\* any other is extracted from its page
ScrapedListings(site, prev) ==
  MapSeq(LAMBDA n : IF ToDigits(n) \in previousIdsOf(prev)
                      THEN previousListingsById(prev, ToDigits(n))
                      ELSE numberedListing(n),
         SelectSeq([n \in 1..MaxListings |-> n], LAMBDA n : n \in site))

singleRunVars == <<store, envForce, pc, eventForce, previousListings, typeIdx, page,
                   urlResults, detailQueue, newListings, allCurrentListings,
                   allProcessedIds, results, diffIO, notifyCalls, response, hist,
                   scrapeTypes>>

ConcurrentInit ==
  /\ HandlerIdle
  /\ MessagingIdle
  /\ bucket \in InitialBuckets
  /\ runs = [r \in Runs |-> NoRun]

\* handler is invoked, whatever the other invocations are doing
Start(r) ==
  /\ runs[r].pc = "idle"
  /\ \E price_max \in {null} \cup PriceMaxes :
       runs' = [runs EXCEPT ![r] =
                  [NoRun EXCEPT !.pc = "list",
                                !.filterKey = filterKeyOf(price_max),
                                !.overlapped = {q \in Runs : InFlight(q)}]]
  /\ UNCHANGED bucket
  /\ UNCHANGED singleRunVars
  /\ UNCHANGED messagingVars

\* loadPreviousResults: listObjectsV2 under the filter prefix
ListPrevious(r) ==
  /\ runs[r].pc = "list"
  /\ LET objects == listObjectsV2(bucket, filterPrefix(runs[r].filterKey))
     IN runs' = [runs EXCEPT ![r] =
                   IF objects = {}
                     THEN [@ EXCEPT !.pc = "scrape"]
                     ELSE [@ EXCEPT !.pc = "get",
                                    !.latestKey = latestFile(bucket, objects)]]
  /\ UNCHANGED bucket
  /\ UNCHANGED singleRunVars
  /\ UNCHANGED messagingVars

\* loadPreviousResults: getObject of the newest listed object
GetPrevious(r) ==
  /\ runs[r].pc = "get"
  /\ runs' = [runs EXCEPT ![r] =
                [@ EXCEPT !.pc = "scrape",
                          !.previousListings = bucket[runs[r].latestKey].listings,
                          !.reads = @ \cup {runs[r].latestKey}]]
  /\ UNCHANGED bucket
  /\ UNCHANGED singleRunVars
  /\ UNCHANGED messagingVars

\* scrapeListings after the load: the site shows some of the listings
ScrapeSite(r) ==
  /\ runs[r].pc = "scrape"
  /\ \E site \in SUBSET (1..MaxListings) :
       runs' = [runs EXCEPT ![r] =
                  [@ EXCEPT !.pc = "state",
                            !.listings = ScrapedListings(site, runs[r].previousListings)]]
  /\ UNCHANGED bucket
  /\ UNCHANGED singleRunVars
  /\ UNCHANGED messagingVars

\* saveAndCompareResults: getObject of the state key
GetState(r) ==
  /\ runs[r].pc = "state"
  /\ LET key == stateKey(runs[r].filterKey)
     IN runs' = [runs EXCEPT ![r] =
                   [@ EXCEPT !.pc = "put",
                             !.previousState = bucket[key].listings,
                             !.isFirstRun = ~bucket[key].exists,
                             !.basis = bucket[key].modified,
                             !.reads = @ \cup {key}]]
  /\ UNCHANGED bucket
  /\ UNCHANGED singleRunVars
  /\ UNCHANGED messagingVars

\* saveAndCompareResults: the comparison and putObject of the state key; the
\* handler then reports results.newListings and returns
PutState(r) ==
  /\ runs[r].pc = "put"
  /\ LET key == stateKey(runs[r].filterKey)
         result == DiffResult(runs[r].listings, runs[r].previousState,
                              runs[r].isFirstRun, FALSE)
     IN /\ bucket' = [bucket EXCEPT ![key] =
                        [exists |-> TRUE,
                         listings |-> CurrentState(runs[r].listings).listings,
                         modified |-> Clock(bucket)]]
        /\ runs' = [runs EXCEPT ![r] =
                      [@ EXCEPT !.pc = "done",
                                !.reported = {l.id : l \in Range(result.newListings)},
                                !.writes = @ \cup {key},
                                !.stale = bucket[key].modified # runs[r].basis]]
  /\ UNCHANGED singleRunVars
  /\ UNCHANGED messagingVars

ConcurrentNext ==
  \E r \in Runs :
    \/ Start(r)
    \/ ListPrevious(r)
    \/ GetPrevious(r)
    \/ ScrapeSite(r)
    \/ GetState(r)
    \/ PutState(r)

ConcurrentSpec == ConcurrentInit /\ [][ConcurrentNext]_vars

(***************************************************************************)
(* Properties                                                              *)
(***************************************************************************)
\* the ids of a list of listings, as decimal strings without leading zeros
NormIdSet(listings) ==
  {StripZeros(listings[i].id) : i \in {j \in 1..Len(listings) : listings[j].id # null}}

\* the digits that follow /adv/ in a listing URL
UrlDigits(url) ==
  DigitRun(url, Min({i \in 1..Len(url) : url[i] = "adv"}) + 2)

\* the diff has returned its result and the handler has not yet gone on
DiffReturned == pc = "notify"

\* P and C of the diff that has returned
PriorIds == NormIdSet(hist.storeAtStart.listings)

CurrentIds == NormIdSet(results.currentListings)

\* new = C - P, removed = P - C, unchanged = C \cap P, for the result at hand
SetAlgebra ==
  LET new == NormIdSet(results.newListings)
      removed == NormIdSet(results.removedListings)
      unchanged == CurrentIds \ new
  IN /\ new = CurrentIds \ PriorIds
     /\ removed = PriorIds \ CurrentIds
     /\ unchanged = CurrentIds \cap PriorIds
     /\ new \cup unchanged = CurrentIds
     /\ new \cap unchanged = {}

C2_EndToEnd ==
  (DiffReturned /\ diffIO.get = "ok" /\ PriorIds # {}
     /\ previousListings = hist.storeAtStart.listings) =>
    LET C == {StripZeros(id) : id \in allProcessedIds}
    IN /\ NormIdSet(results.newListings) = C \ PriorIds
       /\ NormIdSet(results.removedListings) = PriorIds \ C
       /\ NormIdSet(store.listings) = C
       /\ Len(store.listings) = Cardinality(C)
       /\ \A i \in 1..Len(store.listings) :
            LET l == store.listings[i]
            IN IF StripZeros(l.id) \in PriorIds
                 THEN l \in Range(hist.storeAtStart.listings) /\ l.url \notin hist.fetched
                 ELSE l.url \in hist.fetched

\* C3: without a snapshot object the diff returns isFirstRun = TRUE and no new
\* listings, unless the run is forced (event.force), then all current listings
\* are new; every current listing is in the snapshot written.
C3_FirstRun ==
  (pc = "done" /\ response.statusCode = 200 /\ diffIO.get = "NoSuchKey") =>
    /\ results.isFirstRun
    /\ NormIdSet(results.newListings) = (IF eventForce THEN CurrentIds ELSE {})
    /\ store.listings = MapSeq(createCompactListing, results.currentListings)

\* C4: a diff that is given the listings the snapshot was written from, and
\* reads that snapshot, reports nothing new and nothing removed and leaves the
\* id set of the snapshot as it was.
C4_Idempotence ==
  (DiffReturned /\ diffIO.get = "ok"
     /\ MapSeq(createCompactListing, results.currentListings)
          = hist.storeAtStart.listings) =>
    /\ results.newListings = <<>>
    /\ results.removedListings = <<>>
    /\ previousIdsOf(store.listings) = previousIdsOf(hist.storeAtStart.listings)

\* a second diff over the same, non-empty listings
C4_Witness ==
  /\ DiffReturned /\ diffIO.get = "ok"
  /\ results.currentListings # <<>>
  /\ MapSeq(createCompactListing, results.currentListings)
       = hist.storeAtStart.listings

\* C5: a link whose id, as a decimal string without leading zeros, is among the
\* ids of the loaded snapshot is in skippedIds, not in newUrls, yet in allUrls,
\* and no detail fetch is made for it in the run.
C5_EarlySkip ==
  LET known == NormIdSet(previousListings)
      isKnown(url) == StripZeros(UrlDigits(url)) \in known
  IN /\ \A url \in Range(urlResults.allUrls) :
          isKnown(url) =>
            /\ StripZeros(UrlDigits(url)) \in NormIdSet(
                 [i \in 1..Len(urlResults.skippedIds) |-> [id |-> urlResults.skippedIds[i]]])
            /\ url \notin Range(urlResults.newUrls)
     /\ \A url \in hist.fetched : ~isKnown(url)

\* C6: a run writes the snapshot at most once, and only when the loop over the
\* property types is over and no detail fetch is left; a run that has not
\* written has left the snapshot as it found it.
C6_PersistenceLast ==
  /\ hist.writes <= 1
  /\ hist.writes = 0 => store = hist.storeAtStart
  /\ hist.writes = 1 => pc \in {"notify", "done", "killed"}
  /\ DiffReturned => typeIdx > Len(propertyTypes) /\ detailQueue = <<>>

\* a run that failed after detail fetches and left a non-empty snapshot alone
C6_Witness ==
  /\ pc = "done" /\ response.statusCode = 500
  /\ hist.writes = 0
  /\ hist.fetched # {}
  /\ store.listings # <<>>

\* C7: the snapshot never holds two listings with the same id.
C7_UniqueSnapshotIds ==
  \A i, j \in 1..Len(store.listings) :
    i # j => store.listings[i].id # store.listings[j].id

\* C8: the id extracted from a discovered URL .../adv/<digits>_<slug>/ or
\* .../adv/<digits>/ is <digits> without leading zeros.
C8_ExtractAdIdNormalized ==
  \A url \in Range(urlResults.allUrls) :
    extractAdId(url) = StripZeros(UrlDigits(url))

\* C9: after a first result page without links, discovery returns an error, and
\* the run neither reports removed listings nor writes the snapshot nor succeeds.
C9_EmptyFirstPageAborts ==
  hist.emptyFirstPage =>
    /\ pc = "process" => urlResults.error
    /\ results.removedListings = <<>>
    /\ hist.writes = 0
    /\ response.statusCode # 200

\* C10: after a failed fetch of page 1 the run writes no snapshot and goes to the
\* handler's catch, which attempts a forced error notification and returns
\* success = FALSE.
C10_FirstPageFailureFatal ==
  hist.firstPageFailed =>
    /\ pc \in {"process", "catch", "done"}
    /\ hist.writes = 0
    /\ store = hist.storeAtStart
    /\ pc = "done" =>
         /\ response.statusCode = 500
         /\ ~response.success
         /\ notifyCalls = <<[force |-> TRUE, error |-> TRUE, isFirstRun |-> FALSE]>>

\* a run that failed on page 1 of the second property type, after detail
\* fetches for the first, over an existing snapshot
C10_Witness ==
  /\ pc = "done"
  /\ hist.firstPageFailed
  /\ hist.fetched # {}
  /\ hist.storeAtStart.exists
  /\ response.statusCode = 500

\* C11: after a failed fetch of a result page k > 1 discovery returns, without
\* error, every URL gathered on the pages before, each as new or with its id
\* skipped, and the run goes on with them.
C11_LaterPageFailurePartial ==
  hist.laterPageFailed =>
    /\ pc \in {"process", "details"}
    /\ ~urlResults.error
    /\ urlResults.estimatedTimeSaved = "number"
    /\ Range(urlResults.allUrls) = hist.seen
    /\ \A url \in hist.seen :
         \/ url \in Range(urlResults.newUrls)
         \/ extractAdId(url) \in Range(urlResults.skippedIds)
    /\ pc = "details" =>
         /\ \A url \in hist.seen : extractAdId(url) \in allProcessedIds
         /\ Len(detailQueue) + Len(newListings) >= Len(urlResults.newUrls)

\* a run in its detail loop after page 2 failed, with a new and a skipped link
\* gathered on page 1
C11_Witness ==
  /\ hist.laterPageFailed
  /\ pc = "details"
  /\ urlResults.newUrls # <<>>
  /\ urlResults.skippedIds # <<>>

\* C20: after a failed list, get or put of the store the run writes no snapshot
\* and does not end with success.
C20_StoreFaultAborts ==
  (hist.loadFailed \/ diffIO.get = "error" \/ diffIO.put = "error") =>
    /\ hist.writes = 0
    /\ response.statusCode # 200

\* C12: in a run over an existing snapshot, when the new listings are more than
\* 50 and more than a quarter of the current ones, the result of the diff
\* carries a warning flag, and the run does not fail for it.
C12_AnomalyWarningFlag ==
  (/\ pc \in {"notify", "done"}
   /\ diffIO.put = "ok"
   /\ ~results.isFirstRun
   /\ Len(results.newListings) > AnomalyMinNew
   /\ 4 * Len(results.newListings) > Len(results.currentListings)) =>
    /\ "warning" \in DOMAIN results
    /\ pc = "done" => response.statusCode = 200


\* C18: every part splitLongMessage returns is non-empty and at most maxLength
\* characters long
C18_PartsWithinLimit ==
  chunks.returned =>
    \A i \in 1..Len(chunks.parts) :
      /\ chunks.parts[i] # <<>>
      /\ Len(chunks.parts[i]) <= maxLength


\* the dispatcher went past its early returns
Entered ==
  /\ ~telegramEnv.skip
  /\ telegramEnv.configured
  /\ ~(results.isFirstRun /\ ~eventForce)

\* C13: called for a non-first run with more than 20 new listings and not
\* forced, the dispatcher posts exactly one summary message, then exactly one
\* "too many" message, and no per-listing message
C13_OversizedBatch ==
  (/\ tg.pc = "returned"
   /\ ~telegramEnv.skip
   /\ telegramEnv.configured
   /\ ~results.isFirstRun
   /\ Len(results.newListings) > TooManyNew
   /\ ~eventForce
   /\ ~envForce) =>
    /\ attempts.summary = 1
    /\ attempts.tooMany = 1
    /\ attempts.listingText = 0
    /\ attempts.listingImage = 0
    /\ sends.prev.kind = "summary"
    /\ sends.last.kind = "tooMany"

C15_OneRemovedMessage ==
  (/\ tg.pc = "returned"
   /\ Entered
   /\ sends.failed = 0
   /\ results.removedListings # <<>>) =>
    /\ attempts.removedList + attempts.removedCount = 1
    /\ Len(results.removedListings) <= TooManyRemoved => attempts.removedList = 1
    /\ Len(results.removedListings) > TooManyRemoved => attempts.removedCount = 1

\* C16: a failed request does not end the dispatcher: when it returns, the
\* messages after the summary have all been posted, the "too many" message of
\* an oversized batch, or else one text per new listing and the
\* removed-listings message
C16_FailureDoesNotAbort ==
  (tg.pc = "returned" /\ Entered) =>
    /\ attempts.summary = 1
    /\ IF \/ results.isFirstRun /\ ~(eventForce \/ envForce)
          \/ Len(results.newListings) > TooManyNew /\ ~(eventForce \/ envForce)
         THEN attempts.tooMany = 1
         ELSE /\ attempts.listingText = Len(results.newListings)
              /\ results.removedListings # <<>> =>
                   attempts.removedList + attempts.removedCount = 1

\* C17: a request answered with 429 is posted again: the request after it is
\* the same message, and the dispatcher does not return on a 429 (a call sees
\* at most MaxFailures failures, fewer than the three retries after which a
\* message is given up)
C17_ThrottledSendRetried ==
  /\ sends.prev.outcome = "throttled" =>
       /\ sends.last.kind = sends.prev.kind
       /\ sends.last.index = sends.prev.index
  /\ sends.last.outcome = "throttled" => tg.pc # "returned"

\* C19: once the snapshot is written, the handler never reaches its catch
\* block through the dispatcher and returns 200, success and the counts of the
\* run, whatever sendTelegramNotification returned
C19_NotificationFailureContained ==
  (diffIO.put = "ok" /\ tg.pc = "returned") =>
    /\ pc \in {"notify", "done"}
    /\ pc = "done" =>
         response = [statusCode |-> 200, success |-> TRUE,
                     totalListings |-> Len(results.currentListings),
                     newListings |-> Len(results.newListings),
                     removedListings |-> Len(results.removedListings)]

\* the handler has answered a run whose dispatcher gave up on a failed request
C19_Witness ==
  /\ pc = "done"
  /\ diffIO.put = "ok"
  /\ tg.delivered = "false"
  /\ sends.failed > 0
  /\ Throws(sends.last.outcome)
  /\ response.statusCode = 200


RECURSIVE JoinLines(_)
\* parts.join('\n')
JoinLines(parts) ==
  IF parts = <<>> THEN <<>>
  ELSE IF Len(parts) = 1 THEN parts[1]
  ELSE parts[1] \o <<"\n">> \o JoinLines(Tail(parts))

\* C30: for a message longer than maxLength, the parts splitLongMessage
\* returns, joined with a line break, are the message
C30_SplitLosesNothing ==
  (chunks.returned /\ Len(message) > maxLength) =>
    JoinLines(chunks.parts) = message


\* C25: when the snapshot object exists and its listings array is empty, the
\* diff does not report a first run and returns every current listing as new
C25_EmptySnapshotIsNotFirstRun ==
  (/\ DiffReturned
   /\ diffIO.get = "ok"
   /\ hist.storeAtStart.exists
   /\ hist.storeAtStart.listings = <<>>) =>
    /\ ~results.isFirstRun
    /\ NormIdSet(results.newListings) = CurrentIds


\* the listing is among the given ones, under the id its URL carries
Retained(url, listings) ==
  \E i \in 1..Len(listings) :
    listings[i].url = url /\ listings[i].id = extractAdId(url)

\* C23: a listing whose detail page was fetched, with or without success, has
\* a record with its id and url among the current listings of the run, marked
\* when the fetch failed, and in the snapshot the run writes
C23_FailedDetailsRetained ==
  /\ pc \in {"discover", "process", "details", "save", "notify"} =>
       /\ \A url \in hist.fetched : Retained(url, allCurrentListings)
       /\ \A l \in Range(newListings) :
            l.error => l.id = extractAdId(l.url) /\ l \in Range(allCurrentListings)
  /\ (pc \in {"notify", "done"} /\ diffIO.put = "ok") =>
       \A url \in hist.fetched : Retained(url, store.listings)

\* the snapshot is written in a run in which a detail fetch failed
C23_Witness ==
  /\ pc = "notify"
  /\ diffIO.put = "ok"
  /\ \E l \in Range(allCurrentListings) :
       l.error /\ l.url \in hist.fetched /\ Retained(l.url, store.listings)


\* C24: the value the handler returns is 200 with success or 500 without, and
\* it is 500 exactly when the run met a fatal error: the first result page of
\* a property type could not be fetched, or the store failed on a read or on
\* the write
C24_SuccessIffNoError ==
  pc = "done" =>
    /\ \/ response.statusCode = 200 /\ response.success
       \/ response.statusCode = 500 /\ ~response.success
    /\ ~response.success <=>
         \/ hist.firstPageFailed
         \/ hist.loadFailed
         \/ diffIO.get = "error"
         \/ diffIO.put = "error"


\* C26: in a non-first run that loaded a non-empty snapshot, a current listing
\* was detail-fetched in this run if and only if the diff returns it as new
C26_SkipAgreesWithDiff ==
  (/\ DiffReturned
   /\ diffIO.get = "ok"
   /\ ~hist.loadFailed
   /\ ~results.isFirstRun
   /\ PriorIds # {}) =>
    \A i \in 1..Len(results.currentListings) :
      LET l == results.currentListings[i]
      IN l.id # null =>
           (l.url \in hist.fetched <=>
              StripZeros(l.id) \in NormIdSet(results.newListings))


\* C27: a run that scans some of the property types returns as removed only
\* prior listings of the types it scanned, and the prior listings of the other
\* types are still in the snapshot it writes
C27_RemovedWithinScannedTypes ==
  (DiffReturned /\ diffIO.get = "ok" /\ ~hist.loadFailed) =>
    /\ \A l \in Range(results.removedListings) :
         l.propertyType \in Range(scrapeTypes)
    /\ \A l \in Range(hist.storeAtStart.listings) :
         l.propertyType \notin Range(scrapeTypes) =>
           \E j \in 1..Len(store.listings) : store.listings[j].id = l.id


\* C29: every link with an id on the result pages crawled for a property type
\* is among the ids scrapeListings collects, and when the diff has written the
\* snapshot, the ids in it are the ids collected in this run, the skipped and
\* the new ones of all scanned property types
C29_SnapshotIsTheCrawl ==
  /\ pc = "details" =>
       \A url \in hist.seen :
         extractAdId(url) # null => extractAdId(url) \in allProcessedIds
  /\ (DiffReturned /\ diffIO.put = "ok") =>
       {store.listings[i].id : i \in 1..Len(store.listings)} = allProcessedIds

\* a snapshot written by a run that skipped a known listing and fetched a new one
C29_Witness ==
  /\ DiffReturned
  /\ diffIO.put = "ok"
  /\ \E l \in Range(allCurrentListings) : l.url \in hist.fetched
  /\ \E l \in Range(allCurrentListings) : l.url \notin hist.fetched
  /\ Cardinality(allProcessedIds) >= 2


\* C28: the requests of a call are ordered: the summary is the first and is
\* posted once; the text of listing i is the i-th text and follows the
\* requests of listing i - 1, or the summary, the first-run notice or the
\* announcement when i = 1; the images of a listing directly follow its text;
\* the removed-listings message comes after the text of every new listing and
\* nothing follows it
C28_SendsOrdered ==
  LET last == sends.last
      prev == sends.prev
      removed == {"removedList", "removedCount"}
      perListing == {"listingText", "listingImage"}
  IN /\ last.kind # "none" => attempts.summary = 1
     /\ last.kind = "summary" <=> (last.kind # "none" /\ prev.kind = "none")
     /\ last.kind = "listingText" =>
          /\ last.index = attempts.listingText
          /\ IF last.index = 1 THEN prev.kind \in {"summary", "firstRun", "announce"}
             ELSE prev.kind \in perListing /\ prev.index = last.index - 1
     /\ last.kind = "listingImage" =>
          prev.kind = "listingText" /\ prev.index = last.index
     /\ last.kind \in removed =>
          /\ attempts.listingText = Len(results.newListings)
          /\ prev.kind \notin removed
          /\ attempts.removedList + attempts.removedCount = 1
     /\ prev.kind \notin removed \cup {"tooMany"}

\* a call has posted the texts of two or more listings, images, and then the
\* removed-listings message
C28_Witness ==
  /\ tg.pc = "returned"
  /\ attempts.listingText >= 2
  /\ attempts.listingImage >= 1
  /\ sends.last.kind = "removedList"

\* a run between its load of the previous results and its save of the new state
InLoadToSave(r) == runs[r].pc \in {"list", "get", "scrape", "state", "put"}

\* two different invocations that work under the same filter key
SameKeyRuns(r1, r2) ==
  /\ r1 # r2
  /\ runs[r1].filterKey # null
  /\ runs[r1].filterKey = runs[r2].filterKey

\* C21: at most one run per filter key is in flight: two invocations with the
\* same filter key never have their load -> diff -> save spans overlap, none
\* of them overwrites a snapshot put after it read the state, and no listing
\* is reported as new by both
C21_OneRunPerFilterKey ==
  \A r1 \in Runs, r2 \in Runs :
    SameKeyRuns(r1, r2) =>
      /\ ~(InLoadToSave(r1) /\ InLoadToSave(r2))
      /\ ~runs[r1].stale
      /\ runs[r1].reported \cap runs[r2].reported = {}

\* C22: a run reads and writes no object but the snapshot of its own filter
\* key, and a snapshot changes only in the save of a run of its filter key,
\* whatever the other runs do in between
C22_DifferentKeysIndependent ==
  /\ [](\A r \in Runs :
          /\ runs[r].reads \subseteq {stateKey(runs[r].filterKey)}
          /\ runs[r].writes \subseteq {stateKey(runs[r].filterKey)})
  /\ [][\A k \in Keys :
          bucket'[k] # bucket[k] =>
            \E r \in Runs : /\ runs[r].pc = "put"
                            /\ runs'[r].pc = "done"
                            /\ stateKey(runs[r].filterKey) = k
                            /\ \A q \in Runs \ {r} : runs'[q] = runs[q]]_vars

\* two runs under different filter keys overlapped, both read a previous
\* snapshot and both saved
C22_Witness ==
  \E r1 \in Runs, r2 \in Runs :
    /\ runs[r1].filterKey # runs[r2].filterKey
    /\ runs[r1].pc = "done"
    /\ runs[r2].pc = "done"
    /\ r1 \in runs[r2].overlapped
    /\ runs[r1].reads # {}
    /\ runs[r2].reads # {}
    /\ runs[r1].writes # {}
    /\ runs[r2].writes # {}

====
